---- MODULE Spec2Model ----
(***************************************************************************)
(* Model of the pyhdk binding initializer (python/pyhdk/__init__.py) and   *)
(* of the storage / SQL surface exercised by python/tests/test_pyhdk_sql.py *)
(*                                                                         *)
(* Spec     : the package body of pyhdk, executed by the interpreter's     *)
(*            import statement, one source statement group per step.      *)
(* SpecSql  : ArrowStorage.importArrowTable and the three query shapes of  *)
(*            the test, over an initialized binding.                       *)
(***************************************************************************)
EXTENDS Integers, Sequences, FiniteSets, TLC

VARIABLES
    platform,      \* sys.platform
    environ,       \* os.environ (a function from variable names to values)
    dlopenflags,   \* the process-wide mask behind sys.get/setdlopenflags
    prev,          \* the package global `prev` (Unbound until line 14 runs)
    dllDirs,       \* directories passed to os.add_dll_directory, in order
    sysModules,    \* sys.modules (names only)
    ns,            \* the namespace of the pyhdk package being initialized
    pc,            \* position in the package body; "idle" outside of it
    idx,           \* which of the import statements of lines 23-29 is next
    err,           \* the exception the last import statement raised
    imports,       \* number of `import pyhdk` statements executed so far
    failures,      \* history: where in the body each failed import raised
    flags0,        \* history: the mask before the first import statement
    startFlags,    \* history: the mask when the running/last body started
    loadFlags,     \* history: the mask when each engine module began loading
    flagsTouched,  \* history: sys.getdlopenflags/setdlopenflags was called
    environRead,   \* history: os.environ was consulted
    tables,        \* ArrowStorage: the registered tables, in import order
    imported,      \* history: table name -> the Arrow table handed to the import
    lastCall,      \* history: the last storage / query call and its arguments
    result,        \* the data frame of the last executed query
    sqlErr         \* the exception the last storage call raised

initVars == <<platform, environ, dlopenflags, prev, dllDirs, sysModules, ns, pc,
              idx, err, imports, failures, flags0, startFlags, loadFlags,
              flagsTouched, environRead>>
sqlVars == <<tables, imported, lastCall, result, sqlErr>>
vars == <<initVars, sqlVars>>

----------------------------------------------------------------------------
(* Bounds *)

\* how many `import pyhdk` statements the host program executes
MaxImports == 3

\* longest column of a generated Arrow table
MaxRows == 2

----------------------------------------------------------------------------
(* os constants and helpers *)

RTLD_LAZY == 1
RTLD_GLOBAL == 256

RECURSIVE BitOr(_, _)
BitOr(a, b) ==
    IF a = 0 THEN b
    ELSE IF b = 0 THEN a
    ELSE (IF a % 2 = 1 \/ b % 2 = 1 THEN 1 ELSE 0) + 2 * BitOr(a \div 2, b \div 2)

\* masks the process may hold before the package is imported:
\* RTLD_NOW (the interpreter's default), RTLD_LAZY, and both with RTLD_GLOBAL
InitialFlagMasks == {2, RTLD_LAZY, BitOr(2, RTLD_GLOBAL), BitOr(RTLD_LAZY, RTLD_GLOBAL)}

Platforms == {"linux", "win32", "darwin"}

Unbound == -1

\* Path strings are sequences of tokens; "\\" and "/" are the separators.
Seps == {"\\", "/"}
Drives == {"C:"}

JavaHomes == { <<"C:", "\\", "jdk">>,
               <<"C:", "\\", "jdk", "\\">>,
               <<"C:", "\\", "jdk", "/">>,
               <<"C:">> }

Environs == { <<>> , [v \in {"PATH"} |-> <<"C:", "\\", "bin">>] }
            \cup { [v \in {"JAVA_HOME"} |-> j] : j \in JavaHomes }

\* ntpath.splitroot restricted to the shapes above: drive, then the rest
PathDrive(p) == IF Len(p) > 0 /\ p[1] \in Drives THEN <<p[1]>> ELSE <<>>
PathRest(p) == IF Len(p) > 0 /\ p[1] \in Drives THEN Tail(p) ELSE p

\* ntpath.join(path, part) for a relative, drive-less part
PathJoin1(path, part) ==
    LET rest == PathRest(path)
        sepd == IF Len(rest) > 0 /\ rest[Len(rest)] \notin Seps
                THEN rest \o <<"\\">> ELSE rest
    IN  PathDrive(path) \o sepd \o <<part>>

RECURSIVE PathJoin(_, _)
PathJoin(path, parts) ==
    IF parts = <<>> THEN path
    ELSE PathJoin(PathJoin1(path, Head(parts)), Tail(parts))

----------------------------------------------------------------------------
(* The package body *)

NewFlagsLazyOnly == RTLD_LAZY

\* the mask installed for the duration of the engine imports (line 15)
NewFlags == BitOr(RTLD_LAZY, RTLD_GLOBAL)

\* the modules named by the import statements of lines 23-29, in order
EngineModules == << "pyhdk._common", "pyhdk._execute", "pyhdk.sql", "pyhdk.storage",
                    "pyhdk.hdk", "pyhdk._builder", "pyhdk.version" >>

EngineSet == { EngineModules[i] : i \in 1..Len(EngineModules) }

\* values a name of the namespace can be bound to
Attr(m, a) == <<"attr", m, a>>
Module(m) == <<"module", m>>
CallResult(m, a, f) == <<"call", m, a, f>>

\* the attribute under which the import system publishes a loaded submodule
\* on its parent package
ShortName(m) ==
    CASE m = "pyhdk._common"  -> "_common"
      [] m = "pyhdk._execute" -> "_execute"
      [] m = "pyhdk.sql"      -> "sql"
      [] m = "pyhdk.storage"  -> "storage"
      [] m = "pyhdk.hdk"      -> "hdk"
      [] m = "pyhdk._builder" -> "_builder"
      [] m = "pyhdk.version"  -> "version"

ExportsWithoutBuilder(m) ==
    CASE m = "pyhdk._common"  -> { <<"TypeInfo", Attr(m, "TypeInfo")>>,
                                   <<"buildConfig", Attr(m, "buildConfig")>>,
                                   <<"initLogger", Attr(m, "initLogger")>> }
      [] m = "pyhdk._execute" -> { <<"Executor", Attr(m, "Executor")>> }
      [] m = "pyhdk.sql"      -> { <<"sql", Module(m)>> }
      [] m = "pyhdk.storage"  -> { <<"storage", Module(m)>> }
      [] m = "pyhdk.hdk"      -> { <<"init", Attr(m, "init")>> }
      [] m = "pyhdk._builder" -> { }
      [] m = "pyhdk.version"  -> { <<"Version", Attr(m, "Version")>> }

\* the names each import statement binds in the package namespace
Exports(m) ==
    CASE m = "pyhdk._common"  -> { <<"TypeInfo", Attr(m, "TypeInfo")>>,
                                   <<"buildConfig", Attr(m, "buildConfig")>>,
                                   <<"initLogger", Attr(m, "initLogger")>> }
      [] m = "pyhdk._execute" -> { <<"Executor", Attr(m, "Executor")>> }
      [] m = "pyhdk.sql"      -> { <<"sql", Module(m)>> }
      [] m = "pyhdk.storage"  -> { <<"storage", Module(m)>> }
      [] m = "pyhdk.hdk"      -> { <<"init", Attr(m, "init")>> }
      [] m = "pyhdk._builder" -> { <<"QueryBuilder", Attr(m, "QueryBuilder")>> }
      [] m = "pyhdk.version"  -> { <<"Version", Attr(m, "Version")>> }

\* the namespace `space` after binding every <<name, value>> of `binds`
Bind(space, binds) ==
    LET names == { b[1] : b \in binds }
    IN  [ n \in (DOMAIN space) \cup names |->
            IF n \in names THEN (CHOOSE b \in binds : b[1] = n)[2] ELSE space[n] ]

EmptyNs == [ n \in {} |-> <<>> ]

NoError == [type |-> "none", msg |-> ""]
JavaHomeError ==
    [type |-> "RuntimeError",
     msg  |-> "HDK engine requires JAVA_HOME environment variable to point to Java runtime location."]
KeyError(k) == [type |-> "KeyError", msg |-> k]
ImportError(m) == [type |-> "ImportError", msg |-> m]

\* An exception leaves the package body: it reaches the import statement of
\* the caller, and the import system drops the half-initialized package (its
\* namespace, `prev` included) from sys.modules.  Submodules that did load
\* stay in sys.modules.  Nothing else is undone.
Raise(e) ==
    /\ err' = e
    /\ failures' = Append(failures, pc)
    /\ sysModules' = sysModules \ {"pyhdk"}
    /\ ns' = EmptyNs
    /\ prev' = Unbound
    /\ pc' = "idle"
    /\ idx' = 0

\* `import pyhdk` while the package is not in sys.modules: the body starts
ImportFresh ==
    /\ pc = "idle"
    /\ imports < MaxImports
    /\ "pyhdk" \notin sysModules
    /\ imports' = imports + 1
    /\ sysModules' = sysModules \cup {"pyhdk"}
    /\ ns' = EmptyNs
    /\ prev' = Unbound
    /\ err' = NoError
    /\ startFlags' = dlopenflags
    /\ pc' = "setup"
    /\ idx' = 0
    /\ UNCHANGED <<platform, environ, dlopenflags, dllDirs, failures, flags0,
                   loadFlags, flagsTouched, environRead>>

ImportCachedReexec ==
    /\ pc = "idle"
    /\ imports < MaxImports
    /\ "pyhdk" \in sysModules
    /\ imports' = imports + 1
    /\ ns' = EmptyNs
    /\ prev' = Unbound
    /\ err' = NoError
    /\ startFlags' = dlopenflags
    /\ pc' = "setup"
    /\ idx' = 0
    /\ UNCHANGED <<platform, environ, dlopenflags, dllDirs, sysModules, failures,
                   flags0, loadFlags, flagsTouched, environRead>>

\* `import pyhdk` while the package is in sys.modules: the body does not run
ImportCached ==
    /\ pc = "idle"
    /\ imports < MaxImports
    /\ "pyhdk" \in sysModules
    /\ imports' = imports + 1
    /\ err' = NoError
    /\ UNCHANGED <<platform, environ, dlopenflags, prev, dllDirs, sysModules, ns,
                   pc, idx, failures, flags0, startFlags, loadFlags, flagsTouched,
                   environRead>>

\* lines 13-15
SetupLinux ==
    /\ pc = "setup"
    /\ platform = "linux"
    /\ prev' = dlopenflags
    /\ dlopenflags' = NewFlags
    /\ flagsTouched' = TRUE
    /\ pc' = "imports"
    /\ idx' = 1
    /\ UNCHANGED <<platform, environ, dllDirs, sysModules, ns, err, imports,
                   failures, flags0, startFlags, loadFlags, environRead>>

JavaHomeNeverMissing == FALSE

\* line 17
JavaHomeMissing == "JAVA_HOME" \notin DOMAIN environ

JavaHomeDir == environ["JAVA_HOME"]

\* line 21: the directory handed to os.add_dll_directory
JavaServerDir == PathJoin(environ["JAVA_HOME"], <<"bin", "server">>)

\* os.add_dll_directory accepts absolute paths only
IsAbsolutePath(p) == Len(p) >= 2 /\ p[1] \in Drives /\ p[2] \in Seps

OSError(d) == [type |-> "OSError", msg |-> d]

\* lines 16-21.  os.add_dll_directory raises OSError for a path that is not
\* absolute, and may raise it for any path (the directory does not exist).
SetupWin32 ==
    /\ pc = "setup"
    /\ platform = "win32"
    /\ environRead' = TRUE
    /\ IF JavaHomeMissing
       THEN /\ Raise(JavaHomeError)
            /\ UNCHANGED dllDirs
       ELSE IF "JAVA_HOME" \notin DOMAIN environ
       THEN /\ Raise(KeyError("JAVA_HOME"))   \* os.environ["JAVA_HOME"]
            /\ UNCHANGED dllDirs
       ELSE \E accepted \in BOOLEAN :
              IF accepted /\ IsAbsolutePath(JavaServerDir)
              THEN /\ dllDirs' = Append(dllDirs, JavaServerDir)
                   /\ pc' = "imports"
                   /\ idx' = 1
                   /\ UNCHANGED <<prev, sysModules, ns, err, failures>>
              ELSE /\ Raise(OSError(JavaServerDir))
                   /\ UNCHANGED dllDirs
    /\ UNCHANGED <<platform, environ, dlopenflags, imports, flags0, startFlags,
                   loadFlags, flagsTouched>>

\* neither branch of lines 13-21 applies
SetupOther ==
    /\ pc = "setup"
    /\ platform \notin {"linux", "win32"}
    /\ pc' = "imports"
    /\ idx' = 1
    /\ UNCHANGED <<platform, environ, dlopenflags, prev, dllDirs, sysModules, ns,
                   err, imports, failures, flags0, startFlags, loadFlags,
                   flagsTouched, environRead>>

\* lines 23-29, one import statement: the module loads (unless sys.modules
\* already holds it from an earlier attempt) and its names are bound
LoadEngineOk ==
    /\ pc = "imports"
    /\ LET m == EngineModules[idx]
           fresh == m \notin sysModules
           published == IF fresh THEN Bind(ns, { <<ShortName(m), Module(m)>> }) ELSE ns
       IN  /\ sysModules' = sysModules \cup {m}
           /\ loadFlags' = IF fresh THEN [loadFlags EXCEPT ![m] = dlopenflags]
                           ELSE loadFlags
           /\ ns' = Bind(published, Exports(m))
    /\ IF idx < Len(EngineModules)
       THEN /\ idx' = idx + 1
            /\ pc' = pc
       ELSE /\ idx' = 0
            /\ pc' = "restore"
    /\ UNCHANGED <<platform, environ, dlopenflags, prev, dllDirs, err, imports,
                   failures, flags0, startFlags, flagsTouched, environRead>>

LoadEngineRaiseRestoring ==
    /\ pc = "imports"
    /\ EngineModules[idx] \notin sysModules
    /\ Raise(ImportError(EngineModules[idx]))
    /\ dlopenflags' = IF platform = "linux" THEN prev ELSE dlopenflags
    /\ UNCHANGED <<platform, environ, dllDirs, imports, flags0, startFlags,
                   loadFlags, flagsTouched, environRead>>

\* lines 23-29, one import statement: loading the module raises.  The body
\* has no handler, so the exception leaves it with the mask as it is.
LoadEngineRaise ==
    /\ pc = "imports"
    /\ EngineModules[idx] \notin sysModules
    /\ Raise(ImportError(EngineModules[idx]))
    /\ UNCHANGED <<platform, environ, dlopenflags, dllDirs, imports, flags0,
                   startFlags, loadFlags, flagsTouched, environRead>>

FirstFlags == flags0

\* the value line 32 writes back
SavedFlags == prev

RestoreFlagsSkipped ==
    /\ pc = "restore"
    /\ pc' = "version"
    /\ UNCHANGED <<platform, environ, dlopenflags, prev, dllDirs, sysModules, ns,
                   idx, err, imports, failures, flags0, startFlags, loadFlags,
                   flagsTouched, environRead>>

\* lines 31-32
RestoreFlags ==
    /\ pc = "restore"
    /\ dlopenflags' = IF platform = "linux" THEN SavedFlags ELSE dlopenflags
    /\ pc' = "version"
    /\ UNCHANGED <<platform, environ, prev, dllDirs, sysModules, ns, idx, err,
                   imports, failures, flags0, startFlags, loadFlags, flagsTouched,
                   environRead>>

\* line 34, Version.str() returns
SetVersion ==
    /\ pc = "version"
    /\ ns' = Bind(ns, { <<"__version__", CallResult("pyhdk.version", "Version", "str")>> })
    /\ pc' = "idle"
    /\ UNCHANGED <<platform, environ, dlopenflags, prev, dllDirs, sysModules, idx,
                   err, imports, failures, flags0, startFlags, loadFlags,
                   flagsTouched, environRead>>

VersionError == [type |-> "Exception", msg |-> "Version.str"]

\* line 34, Version.str() raises: the exception leaves the body after
\* lines 31-32 have run
SetVersionRaise ==
    /\ pc = "version"
    /\ Raise(VersionError)
    /\ UNCHANGED <<platform, environ, dlopenflags, dllDirs, imports, flags0,
                   startFlags, loadFlags, flagsTouched, environRead>>

----------------------------------------------------------------------------
(* Storage and SQL: the engine surface the test drives *)

\* A pandas frame / Arrow table: column names and one value sequence per column
Frame(cols, c1, c2) == [cols |-> cols, data |-> <<c1, c2>>]

\* the frames of setup_class and of test_storage_exceptions
TestFrame == Frame(<<"a", "b">>, <<1, 2, 3>>, <<10, 20, 30>>)
OtherFrame == Frame(<<"c", "d">>, <<1, 2, 3>>, <<10, 20, 30>>)

ColumnNames == { <<"a", "b">>, <<"c", "d">> }
ColumnValues == {2, 3}

SeqsUpTo(S, n) == UNION { [1..k -> S] : k \in 0..n }

ArrowTables ==
    {TestFrame, OtherFrame} \cup
    { Frame(cols, xs, [i \in 1..Len(xs) |-> 10 * xs[i]]) :
        cols \in ColumnNames, xs \in SeqsUpTo(ColumnValues, MaxRows) }

TableNames == {"test", "t2"}

\* TableOptions(n): the fragment size
FragmentSizes == {1, 2}

\* thresholds k of the filter `WHERE <first column> < k`
Thresholds == {3}

NumRows(at) == Len(at.data[1])

Min(x, y) == IF x < y THEN x ELSE y

FragmentsDroppingTail(at, size) ==
    [ f \in 1..(NumRows(at) \div size) |->
        [ c \in 1..Len(at.data) |->
            SubSeq(at.data[c], (f - 1) * size + 1, f * size) ] ]

\* the rows of an imported table, split into fragments of at most `size` rows
Fragments(at, size) ==
    [ f \in 1..((NumRows(at) + size - 1) \div size) |->
        [ c \in 1..Len(at.data) |->
            SubSeq(at.data[c], (f - 1) * size + 1, Min(f * size, NumRows(at))) ] ]

Registered(name) == \E i \in 1..Len(tables) : tables[i].name = name

Lookup(name) == tables[CHOOSE i \in 1..Len(tables) : tables[i].name = name]

\* ArrowStorage.importArrowTable(at, name, opt) under a name the storage
\* does not hold yet
ImportArrowTable(at, name, size) ==
    /\ ~Registered(name)
    /\ lastCall' = [op |-> "import", table |-> name, k |-> 0]
    /\ result' = <<>>
    /\ sqlErr' = NoError
    /\ tables' = Append(tables, [name |-> name, cols |-> at.cols,
                                 frags |-> Fragments(at, size)])
    /\ imported' = [ n \in (DOMAIN imported) \cup {name} |->
                       IF n = name THEN at ELSE imported[n] ]

\* test_storage_exceptions: importing the frame of lines 77-79 under a name
\* that holds a table of other columns raises RuntimeError (lines 82-83).
\* An import under a registered name of a table with the same columns is
\* exercised by no test and is not modelled.
ImportClashing(at, name, size) ==
    /\ Registered(name)
    /\ Lookup(name).cols # at.cols
    /\ lastCall' = [op |-> "importClash", table |-> name, k |-> 0]
    /\ result' = <<>>
    /\ sqlErr' = [type |-> "RuntimeError", msg |-> name]
    /\ UNCHANGED <<tables, imported>>

RECURSIVE SumRows(_)
SumRows(frags) ==
    IF frags = <<>> THEN 0 ELSE Len(Head(frags)[1]) + SumRows(Tail(frags))

RECURSIVE CountBelow(_, _)
CountBelow(xs, k) ==
    IF xs = <<>> THEN 0
    ELSE (IF Head(xs) < k THEN 1 ELSE 0) + CountBelow(Tail(xs), k)

RECURSIVE SumBelow(_, _)
SumBelow(frags, k) ==
    IF frags = <<>> THEN 0
    ELSE CountBelow(Head(frags)[1], k) + SumBelow(Tail(frags), k)

RECURSIVE ConcatColumn(_, _)
ConcatColumn(frags, c) ==
    IF frags = <<>> THEN <<>> ELSE Head(frags)[c] \o ConcatColumn(Tail(frags), c)

\* SELECT COUNT(*) FROM t
SelectCount(t) == [cols |-> <<"EXPR$0">>, data |-> << <<SumRows(t.frags)>> >>]

\* SELECT COUNT(*) FROM t WHERE <first column> < k
SelectCountWhere(t, k) == [cols |-> <<"EXPR$0">>, data |-> << <<SumBelow(t.frags, k)>> >>]

\* SELECT * FROM t
SelectAll(t) ==
    [cols |-> t.cols, data |-> [ c \in 1..Len(t.cols) |-> ConcatColumn(t.frags, c) ]]

\* execute_sql(sql).to_arrow().to_pandas()
ExecuteSql(op, name, k) ==
    /\ Registered(name)
    /\ lastCall' = [op |-> op, table |-> name, k |-> k]
    /\ result' = CASE op = "count" -> SelectCount(Lookup(name))
                   [] op = "countWhere" -> SelectCountWhere(Lookup(name), k)
                   [] op = "select" -> SelectAll(Lookup(name))
    /\ sqlErr' = NoError
    /\ UNCHANGED <<tables, imported>>

NoCall == [op |-> "none", table |-> "", k |-> 0]

InitSql ==
    /\ tables = <<>>
    /\ imported = <<>>
    /\ lastCall = NoCall
    /\ result = <<>>
    /\ sqlErr = NoError

----------------------------------------------------------------------------
(* Specification of the initializer *)

Init ==
    /\ platform \in Platforms
    /\ environ \in Environs
    /\ dlopenflags \in InitialFlagMasks
    /\ flags0 = dlopenflags
    /\ startFlags = dlopenflags
    /\ prev = Unbound
    /\ dllDirs = <<>>
    /\ sysModules = {}
    /\ ns = EmptyNs
    /\ pc = "idle"
    /\ idx = 0
    /\ err = NoError
    /\ imports = 0
    /\ failures = <<>>
    /\ loadFlags = [m \in EngineSet |-> Unbound]
    /\ flagsTouched = FALSE
    /\ environRead = FALSE
    /\ InitSql

Next ==
    \/ (ImportFresh /\ UNCHANGED sqlVars)
    \/ (ImportCached /\ UNCHANGED sqlVars)
    \/ (SetupLinux /\ UNCHANGED sqlVars)
    \/ (SetupWin32 /\ UNCHANGED sqlVars)
    \/ (SetupOther /\ UNCHANGED sqlVars)
    \/ (LoadEngineOk /\ UNCHANGED sqlVars)
    \/ (LoadEngineRaise /\ UNCHANGED sqlVars)
    \/ (RestoreFlags /\ UNCHANGED sqlVars)
    \/ (SetVersion /\ UNCHANGED sqlVars)
    \/ (SetVersionRaise /\ UNCHANGED sqlVars)

Spec == Init /\ [][Next]_vars

\* the package body ran to its end and the package is in sys.modules
Initialized == pc = "idle" /\ "pyhdk" \in sysModules

----------------------------------------------------------------------------
(* Specification of the storage and query calls of the test *)

RECURSIVE NsAfter(_)
NsAfter(i) ==
    IF i = 0 THEN EmptyNs
    ELSE Bind(Bind(NsAfter(i - 1),
                   { <<ShortName(EngineModules[i]), Module(EngineModules[i])>> }),
              Exports(EngineModules[i]))

\* the process after `import pyhdk` (test line 13) succeeded at the first
\* attempt, on linux with the interpreter's default mask
InitAfterImport ==
    /\ platform = "linux"
    /\ environ = <<>>
    /\ dlopenflags = 2
    /\ flags0 = 2
    /\ startFlags = 2
    /\ prev = 2
    /\ dllDirs = <<>>
    /\ sysModules = EngineSet \cup {"pyhdk"}
    /\ ns = Bind(NsAfter(Len(EngineModules)),
                 { <<"__version__", CallResult("pyhdk.version", "Version", "str")>> })
    /\ pc = "idle"
    /\ idx = 0
    /\ err = NoError
    /\ imports = 1
    /\ failures = <<>>
    /\ loadFlags = [m \in EngineSet |-> NewFlags]
    /\ flagsTouched = TRUE
    /\ environRead = FALSE
    /\ InitSql

\* test_storage_exceptions lines 76-83
TestStorageExceptions ==
    /\ Initialized
    /\ \E name \in TableNames, size \in FragmentSizes :
          ImportClashing(OtherFrame, name, size)
    /\ UNCHANGED initVars

\* setup_class lines 28-32
TestImport ==
    /\ Initialized
    /\ \E at \in ArrowTables, name \in TableNames, size \in FragmentSizes :
          ImportArrowTable(at, name, size)
    /\ UNCHANGED initVars

\* test_simple_count, test_simple_filter, test_simple_projection
TestCount ==
    /\ Initialized
    /\ \E name \in TableNames : ExecuteSql("count", name, 0)
    /\ UNCHANGED initVars

TestFilter ==
    /\ Initialized
    /\ \E name \in TableNames, k \in Thresholds : ExecuteSql("countWhere", name, k)
    /\ UNCHANGED initVars

TestProjection ==
    /\ Initialized
    /\ \E name \in TableNames : ExecuteSql("select", name, 0)
    /\ UNCHANGED initVars

NextSql == TestImport \/ TestStorageExceptions \/ TestCount \/ TestFilter \/ TestProjection

SpecSql == InitAfterImport /\ [][NextSql]_vars

\* InitAfterImport is a state of Spec
NotInitAfterImport == ~InitAfterImport

----------------------------------------------------------------------------
(* Properties of the initializer (specification Spec) *)

\* RTLD_LAZY | RTLD_GLOBAL, the two bits being distinct
LazyGlobal == RTLD_LAZY + RTLD_GLOBAL

EngineLoaded == sysModules \cap EngineSet # {}

\* the last import statement raised and nothing has been imported since
LastImportFailed == pc = "idle" /\ imports >= 1 /\ "pyhdk" \notin sysModules

\* number of import statements that raised
failed == Len(failures)

\* the last failed import raised while loading an engine submodule
LastFailedInLoad == failures # <<>> /\ failures[Len(failures)] = "imports"

\* some import raised while loading an engine submodule
SomeFailedInLoad == \E i \in 1..Len(failures) : failures[i] = "imports"

\* C1: on linux, once the package body has completed, the dlopen flag mask
\* equals the value it had immediately before that body started.
C1_FlagsRestored ==
    (platform = "linux" /\ Initialized) => dlopenflags = startFlags

C1_Witness ==
    /\ platform = "linux"
    /\ Initialized
    /\ startFlags # LazyGlobal
    /\ \A m \in EngineSet : loadFlags[m] = LazyGlobal

\* C2: on win32 without JAVA_HOME, the import fails with the RuntimeError
\* carrying the descriptive message, and at that moment (and ever after) no
\* engine module is loaded and the DLL search path has not been extended.
C2_FailFastWithoutJavaHome ==
    (platform = "win32" /\ "JAVA_HOME" \notin DOMAIN environ) =>
        /\ ~EngineLoaded
        /\ dllDirs = <<>>
        /\ pc \in {"idle", "setup"}
        /\ ~Initialized
        /\ (pc = "idle" /\ imports >= 1) =>
              /\ err.type = "RuntimeError"
              /\ err.msg = "HDK engine requires JAVA_HOME environment variable to point to Java runtime location."
              /\ failed = imports

C2_Witness ==
    /\ platform = "win32"
    /\ "JAVA_HOME" \notin DOMAIN environ
    /\ LastImportFailed
    /\ err.type = "RuntimeError"

\* C3: on linux, the mask is exactly RTLD_LAZY | RTLD_GLOBAL at the moment
\* each engine submodule begins loading, and throughout lines 23-29.
C3_FlagWindow ==
    platform = "linux" =>
        /\ \A m \in EngineSet : loadFlags[m] # Unbound => loadFlags[m] = LazyGlobal
        /\ pc \in {"imports", "restore"} => dlopenflags = LazyGlobal

C3_Witness ==
    /\ platform = "linux"
    /\ flags0 # LazyGlobal
    /\ pc = "restore"
    /\ \A m \in EngineSet : loadFlags[m] = LazyGlobal

\* C4: on linux, if loading an engine submodule raises, the error reaches
\* the caller and the mask is left at RTLD_LAZY | RTLD_GLOBAL, not at the
\* value it had before the attempt.
C4_FailureLeavesFlagsSet ==
    (platform = "linux" /\ LastImportFailed /\ LastFailedInLoad) =>
        /\ err.type = "ImportError"
        /\ err.msg \in EngineSet
        /\ failed >= 1
        /\ dlopenflags = LazyGlobal
        /\ (startFlags # LazyGlobal => dlopenflags # startFlags)

C4_Witness ==
    /\ platform = "linux"
    /\ LastImportFailed
    /\ LastFailedInLoad
    /\ failed = 1
    /\ startFlags # LazyGlobal
    /\ err.type = "ImportError"

\* C5: once the package is initialized, a further `import pyhdk` does not
\* raise and changes neither the mask, nor the DLL search path, nor the
\* package namespace.
C5_ReimportIdempotent ==
    [][Initialized =>
          /\ Initialized'
          /\ err'.type = "none"
          /\ dlopenflags' = dlopenflags
          /\ dllDirs' = dllDirs
          /\ ns' = ns]_vars

C5_Witness ==
    /\ Initialized
    /\ failed = 0
    /\ imports >= 2

\* C6: on every platform, once the body has completed the namespace binds
\* every advertised entry point to the engine object itself, and
\* __version__ to the result of Version.str().
C6_EntryPoints ==
    Initialized =>
        /\ {"TypeInfo", "buildConfig", "initLogger", "Executor", "sql", "storage",
            "init", "QueryBuilder", "Version", "__version__"} \subseteq DOMAIN ns
        /\ ns["TypeInfo"] = <<"attr", "pyhdk._common", "TypeInfo">>
        /\ ns["buildConfig"] = <<"attr", "pyhdk._common", "buildConfig">>
        /\ ns["initLogger"] = <<"attr", "pyhdk._common", "initLogger">>
        /\ ns["Executor"] = <<"attr", "pyhdk._execute", "Executor">>
        /\ ns["sql"] = <<"module", "pyhdk.sql">>
        /\ ns["storage"] = <<"module", "pyhdk.storage">>
        /\ ns["init"] = <<"attr", "pyhdk.hdk", "init">>
        /\ ns["QueryBuilder"] = <<"attr", "pyhdk._builder", "QueryBuilder">>
        /\ ns["Version"] = <<"attr", "pyhdk.version", "Version">>
        /\ ns["__version__"] = <<"call", "pyhdk.version", "Version", "str">>

\* initialized at the second attempt, with engine modules cached from the first
C6_Witness ==
    /\ Initialized
    /\ failed >= 1
    /\ platform = "darwin"

\* JAVA_HOME/bin/server: the value of JAVA_HOME, one separator unless
\* JAVA_HOME ends with one or is a bare drive, then bin, separator, server
IsServerDirOf(d, j) ==
    LET n == Len(d)
        gap == n - 3 - Len(j)
    IN  /\ n >= Len(j) + 3
        /\ SubSeq(d, 1, Len(j)) = j
        /\ SubSeq(d, n - 2, n) = <<"bin", "\\", "server">>
        /\ gap \in {0, 1}
        /\ gap = 1 => d[Len(j) + 1] = "\\"
        /\ gap = 0 => (j[Len(j)] \in Seps \/ Len(j) = 1)

\* C7: on win32 with JAVA_HOME set, JAVA_HOME/bin/server is on the DLL search
\* path before the first engine submodule loads and the dlopen mask is neither
\* read nor written; on linux the DLL search path is not modified and the
\* environment is not consulted.
C7_PlatformBranch ==
    /\ (platform = "win32" /\ "JAVA_HOME" \in DOMAIN environ) =>
          /\ (EngineLoaded \/ pc \in {"imports", "restore", "version"}) =>
                Len(dllDirs) >= 1
          /\ \A i \in 1..Len(dllDirs) : IsServerDirOf(dllDirs[i], environ["JAVA_HOME"])
          /\ ~flagsTouched
          /\ dlopenflags = flags0
    /\ platform = "linux" =>
          /\ dllDirs = <<>>
          /\ ~environRead

C7_Witness ==
    /\ platform = "win32"
    /\ Initialized
    /\ environ["JAVA_HOME"] = <<"C:", "\\", "jdk">>
    /\ dllDirs = << <<"C:", "\\", "jdk", "\\", "bin", "\\", "server">> >>

\* C10 as stated: on linux, a successful attempt that follows failed
\* attempts ends with the mask at RTLD_LAZY | RTLD_GLOBAL.
C10_AnyFailureLeavesLazyGlobal ==
    (platform = "linux" /\ Initialized /\ failed >= 1) => dlopenflags = LazyGlobal

\* C10, amended: on linux, the value written back is the one read at the
\* start of the same attempt; so once an attempt has failed while loading an
\* engine submodule, the mask is RTLD_LAZY | RTLD_GLOBAL after every later
\* attempt, successful ones included, and a different mask from before the
\* first attempt never returns.
C10_RestoresOwnAttemptValue ==
    platform = "linux" =>
        /\ pc \in {"imports", "restore", "version"} => SavedFlags = startFlags
        /\ Initialized => dlopenflags = startFlags
        /\ SomeFailedInLoad =>
              /\ dlopenflags = LazyGlobal
              /\ (flags0 # LazyGlobal => dlopenflags # flags0)

C10_Witness ==
    /\ platform = "linux"
    /\ Initialized
    /\ SomeFailedInLoad
    /\ flags0 # LazyGlobal
    /\ startFlags = LazyGlobal
    /\ dlopenflags = LazyGlobal

----------------------------------------------------------------------------
(* Properties of the storage and query calls (specification SpecSql) *)

\* C9: over an imported table, COUNT(*) yields one row and one column holding
\* the number of imported rows, COUNT(*) with a filter the number of rows
\* that satisfy it, and SELECT * every column's values in the imported order
\* (for a=[1,2,3], b=[10,20,30]: 3, 2 for a < 3, and a 3 by 2 frame).
C9_QueryResults ==
    lastCall.op \in {"count", "countWhere", "select"} =>
        LET at == imported[lastCall.table]
            rows == 1..Len(at.data[1])
        IN  /\ lastCall.op = "count" =>
                  /\ Len(result.cols) = 1 /\ Len(result.data) = 1
                  /\ result.data[1] = << Cardinality(rows) >>
                  /\ at = TestFrame => result.data[1][1] = 3
            /\ lastCall.op = "countWhere" =>
                  /\ Len(result.cols) = 1 /\ Len(result.data) = 1
                  /\ result.data[1] =
                        << Cardinality({ i \in rows : at.data[1][i] < lastCall.k }) >>
                  /\ (at = TestFrame /\ lastCall.k = 3) => result.data[1][1] = 2
            /\ lastCall.op = "select" =>
                  /\ result.cols = at.cols
                  /\ result.data = at.data
                  /\ at = TestFrame =>
                        /\ Len(result.data[1]) = 3 /\ Len(result.cols) = 2
                        /\ result.data = << <<1, 2, 3>>, <<10, 20, 30>> >>

C9_Witness ==
    /\ lastCall.op = "countWhere"
    /\ lastCall.k = 3
    /\ imported[lastCall.table] = TestFrame
    /\ Len(Lookup(lastCall.table).frags) = 2
    /\ result.data[1][1] = 2

====
